---- MODULE Spec2Model ----
(***************************************************************************)
(* Model of the agora GraphQL gateway:                                     *)
(*   - the Statement Store (the module-level Map delegateStatements),      *)
(*   - the resolvers of makeGatewaySchema (Query.address,                  *)
(*     Query.wrappedDelegates with its fused remote query,                 *)
(*     WrappedDelegate.delegate / statement,                               *)
(*     Mutation.createNewDelegateStatement),                               *)
(*   - the worker's fetch handler with the shared response cache.          *)
(*                                                                         *)
(* An address is a sequence of characters (the hex digits after "0x").     *)
(* An optional value (undefined / null in the source) is a sequence of     *)
(* length 0 or 1.                                                          *)
(***************************************************************************)
EXTENDS Integers, Sequences, FiniteSets, TLC

VARIABLES
    delegateStatements,  \* the Map of PageHeader.tsx:323, as its insertion-ordered entries
    verified,            \* history: the records validateForm has returned so far
    resp,                \* the response of the latest synchronous resolver run
    call,                \* the in-flight Query.wrappedDelegates request, if any
    cache,               \* worker.ts:34, the shared in-memory response cache
    gw,                  \* the latest query answered through the worker's fetch
    makeGatewaySchemaPromise,  \* worker.ts:32, 0 for null, else the number of a promise
    schemaPromises,      \* the promises makeGatewaySchema has returned, in order, each with its state
    requests             \* the worker's fetch calls in flight

workerVars == <<makeGatewaySchemaPromise, schemaPromises, requests>>

vars == <<delegateStatements, verified, resp, call, cache, gw, workerVars>>

Range(s) == {s[i] : i \in 1..Len(s)}

None == <<>>
Some(x) == <<x>>

(***************************************************************************)
(* Bounds of the model.                                                    *)
(***************************************************************************)
MaxRemote == 2      \* rows in one answer of the subgraph
MaxSelections == 2  \* selections the caller puts on the delegate field
MaxErrors == 2      \* errors in one answer of the subgraph
MaxRequests == 3    \* fetch calls in flight at once

(***************************************************************************)
(* Addresses and String.prototype.toLowerCase.                             *)
(***************************************************************************)
UpperChars == <<"A", "B", "C", "D", "E", "F">>
LowerChars == <<"a", "b", "c", "d", "e", "f">>

toLowerCaseChar(c) ==
    IF \E i \in 1..Len(UpperChars) : UpperChars[i] = c
    THEN LowerChars[CHOOSE i \in 1..Len(UpperChars) : UpperChars[i] = c]
    ELSE c

toLowerCase(s) == [i \in 1..Len(s) |-> toLowerCaseChar(s[i])]

\* "0x2573c60a6d127755aa2dc85e342f7da2378a0cc5", shortened
SeedAddress == <<"2", "c">>

\* the spellings callers submit and ask for
AddressInputs ==
    { <<"2", "c">>, <<"2", "C">>, <<"a", "b">>, <<"A", "b">> }

\* the keys that can sign a statement
Signers == { <<"2", "c">>, <<"a", "b">> }

\* the ids the subgraph knows (entity ids of the subgraph are lowercase)
RemoteIds == { <<"2", "c">>, <<"a", "b">>, <<"d", "e">> }

Statements == {"Hello", "Bye"}

SeedStatement == "We are a group of Nounish builders"

SeedRecord ==
    [address |-> SeedAddress, values |-> [delegateStatement |-> SeedStatement]]

(***************************************************************************)
(* The JavaScript Map: insertion-ordered entries, one per key.             *)
(***************************************************************************)
MapHas(m, k) == \E i \in 1..Len(m) : m[i].key = k

MapGet(m, k) ==
    IF MapHas(m, k)
    THEN Some(m[CHOOSE i \in 1..Len(m) : m[i].key = k].value)
    ELSE None

MapSet(m, k, v) ==
    IF MapHas(m, k)
    THEN [i \in 1..Len(m) |-> IF m[i].key = k THEN [key |-> k, value |-> v] ELSE m[i]]
    ELSE Append(m, [key |-> k, value |-> v])

MapKeys(m) == [i \in 1..Len(m) |-> m[i].key]

(***************************************************************************)
(* validateForm (./formSchema): the Signature Validator.                   *)
(* A body is the submitted JSON text; a signature names the key that made  *)
(* it and the text it was made over.                                       *)
(***************************************************************************)
MalformedBody == [wellFormed |-> FALSE, address |-> <<>>, delegateStatement |-> ""]

Bodies ==
    { [wellFormed |-> TRUE, address |-> a, delegateStatement |-> s] :
        a \in AddressInputs, s \in Statements } \cup {MalformedBody}

OtherBody == [wellFormed |-> TRUE, address |-> <<"0">>, delegateStatement |-> "other"]

Signatures(body) ==
    { [signer |-> k, over |-> body] : k \in Signers }
    \cup { [signer |-> SeedAddress, over |-> OtherBody] }

\* a signature over another text recovers to an address nobody claims
UnrelatedAddress == <<"f", "f">>

verifyMessage(body, sig) == IF sig.over = body THEN sig.signer ELSE UnrelatedAddress

validateForm(body, sig) ==
    IF ~body.wellFormed
    THEN [ok |-> FALSE, error |-> "ValidationError: malformed statement", record |-> None]
    ELSE IF toLowerCase(verifyMessage(body, sig)) # toLowerCase(body.address)
    THEN [ok |-> FALSE, error |-> "ValidationError: signature does not match address",
          record |-> None]
    ELSE [ok |-> TRUE, error |-> "",
          record |-> Some([address |-> toLowerCase(body.address),
                           values |-> [delegateStatement |-> body.delegateStatement]])]

(***************************************************************************)
(* Responses of the synchronous resolvers.                                 *)
(***************************************************************************)
NoSignature == [signer |-> <<>>, over |-> MalformedBody]

NoResponse ==
    [op |-> "none", body |-> MalformedBody, sig |-> NoSignature, address |-> <<>>,
     ok |-> FALSE, error |-> "", result |-> None]

CreateResponse(body, sig, ok, error, result) ==
    [op |-> "createNewDelegateStatement", body |-> body, sig |-> sig, address |-> <<>>,
     ok |-> ok, error |-> error, result |-> result]

AddressResponse(address, result) ==
    [op |-> "address", body |-> MalformedBody, sig |-> NoSignature, address |-> address,
     ok |-> TRUE, error |-> "", result |-> Some(result)]

(***************************************************************************)
(* Mutation.createNewDelegateStatement: validate, then upsert; a failed    *)
(* validation throws before the store is touched.  The resolver is not     *)
(* async and awaits nothing, so it is one step.                            *)
(***************************************************************************)
ParsedRecord(body) ==
    [address |-> toLowerCase(body.address),
     values |-> [delegateStatement |-> body.delegateStatement]]

createNewDelegateStatement_Unchecked(body, sig) ==
    LET validated == validateForm(body, sig) IN
    /\ body.wellFormed
    /\ delegateStatements' =
         MapSet(delegateStatements, ParsedRecord(body).address, ParsedRecord(body))
    /\ verified' = IF validated.ok THEN verified \cup {validated.record[1]} ELSE verified
    /\ resp' = CreateResponse(body, sig, TRUE, "",
                              Some([address |-> ParsedRecord(body).address]))
    /\ UNCHANGED <<call, cache, gw, workerVars>>

createNewDelegateStatement_CommitThenValidate(body, sig) ==
    LET validated == validateForm(body, sig) IN
    /\ delegateStatements' =
         IF body.wellFormed
         THEN MapSet(delegateStatements, ParsedRecord(body).address, ParsedRecord(body))
         ELSE delegateStatements
    /\ verified' = IF validated.ok THEN verified \cup {validated.record[1]} ELSE verified
    /\ resp' = IF validated.ok
               THEN CreateResponse(body, sig, TRUE, "",
                                   Some([address |-> validated.record[1].address]))
               ELSE CreateResponse(body, sig, FALSE, validated.error, None)
    /\ UNCHANGED <<call, cache, gw, workerVars>>

createNewDelegateStatement_KeepFirst(body, sig) ==
    LET validated == validateForm(body, sig) IN
    /\ IF validated.ok
       THEN /\ delegateStatements' =
                 IF MapHas(delegateStatements, validated.record[1].address)
                 THEN delegateStatements
                 ELSE MapSet(delegateStatements, validated.record[1].address,
                             validated.record[1])
            /\ verified' = verified \cup {validated.record[1]}
            /\ resp' = CreateResponse(body, sig, TRUE, "",
                                      Some([address |-> validated.record[1].address]))
       ELSE /\ UNCHANGED <<delegateStatements, verified>>
            /\ resp' = CreateResponse(body, sig, FALSE, validated.error, None)
    /\ UNCHANGED <<call, cache, gw, workerVars>>

createNewDelegateStatement(body, sig) ==
    LET validated == validateForm(body, sig) IN
    /\ IF validated.ok
       THEN /\ delegateStatements' =
                 MapSet(delegateStatements, validated.record[1].address,
                        validated.record[1])
            /\ verified' = verified \cup {validated.record[1]}
            /\ resp' = CreateResponse(body, sig, TRUE, "",
                                      Some([address |-> validated.record[1].address]))
       ELSE /\ UNCHANGED <<delegateStatements, verified>>
            /\ resp' = CreateResponse(body, sig, FALSE, validated.error, None)
    /\ UNCHANGED <<call, cache, gw, workerVars>>

(***************************************************************************)
(* The read path of one address:                                           *)
(*   address(address: X) { wrappedDelegate { id statement { statement } } }*)
(***************************************************************************)
Query_address_AsGiven(address) == [address |-> address]

Query_address(address) == [address |-> toLowerCase(address)]

Address_wrappedDelegate(parent) == [address |-> parent.address, underlyingDelegate |-> None]

WrappedDelegate_id(parent) == parent.address

WrappedDelegate_statement(parent) == MapGet(delegateStatements, parent.address)

DelegateStatement_statement(parent) == parent.values.delegateStatement

ExecuteAddressQuery(address) ==
    LET wrapped   == Address_wrappedDelegate(Query_address(address))
        statement == WrappedDelegate_statement(wrapped)
    IN [address |-> WrappedDelegate_id(wrapped),
        statement |-> IF statement = None
                      THEN None
                      ELSE Some(DelegateStatement_statement(statement[1]))]

queryAddress(address) ==
    /\ resp' = AddressResponse(address, ExecuteAddressQuery(address))
    /\ UNCHANGED <<delegateStatements, verified, call, cache, gw, workerVars>>

(***************************************************************************)
(* The request's syntax tree, as far as Query.wrappedDelegates reads it.   *)
(***************************************************************************)
Field(name, alias, selections) ==
    [kind |-> "Field", name |-> name, alias |-> alias, selections |-> selections]

FragmentSpread(name) ==
    [kind |-> "FragmentSpread", name |-> name, alias |-> "", selections |-> <<>>]

InlineFragment(typeCondition, selections) ==
    [kind |-> "InlineFragment", name |-> typeCondition, alias |-> "",
     selections |-> selections]

IdField == Field("id", "", <<>>)

\* what a caller may select on the delegate field
DelegateSelectionNodes ==
    { IdField,
      Field("delegatedVotes", "", <<>>),
      Field("delegatedVotes", "votes", <<>>),
      Field("id", "myId", <<>>),
      FragmentSpread("DelegateParts"),
      InlineFragment("Delegate", <<Field("tokenHoldersRepresentedAmount", "", <<>>)>>) }

DelegateSelections ==
    { sel \in UNION { [1..n -> DelegateSelectionNodes] : n \in 1..MaxSelections } :
        \A i, j \in 1..Len(sel) : i # j => sel[i] # sel[j] }

\* info.fieldNodes of a wrappedDelegates request
RequestFieldNodes ==
    { <<Field("wrappedDelegates", "", <<IdField>>)>> }
    \cup { <<Field("wrappedDelegates", "", <<IdField, Field("delegate", "", sel)>>)>> :
             sel \in DelegateSelections }

(***************************************************************************)
(* getSelectionSetFromDelegateField and buildFusedDelegateQuery.           *)
(***************************************************************************)
getSelectionSetFromDelegateField(fieldNodes, fieldName) ==
    LET IsCurrent(node)  == node.name = fieldName
        IsDelegate(node) == node.kind = "Field" /\ node.name = "delegate"
        IsExtra(node)    == node.kind = "Field" /\ node.name # "id"
        current   == SelectSeq(fieldNodes, IsCurrent)
        delegates == IF current = <<>> THEN <<>>
                     ELSE SelectSeq(current[1].selections, IsDelegate)
    IN IF current = <<>> THEN <<>>
       ELSE IF delegates = <<>> THEN <<>>
       ELSE SelectSeq(delegates[1].selections, IsExtra)

buildFusedDelegateQuery(delegateFieldSelectionSet) ==
    [query |-> [name |-> "FusedDelegateQuery",
                field |-> "delegates",
                first |-> 1000,
                orderBy |-> "delegatedVotesRaw",
                orderDirection |-> "desc",
                selections |-> <<FragmentSpread("DelegateFields")>>],
     fragment |-> [name |-> "DelegateFields",
                   typeCondition |-> "Delegate",
                   selections |-> <<IdField>> \o delegateFieldSelectionSet]]

(***************************************************************************)
(* What the subgraph answers to the fused query: rows with distinct ids in *)
(* descending order of votes, or errors (with no data or with some).       *)
(***************************************************************************)
Votes == {1, 2}

Rows == { [id |-> a, delegatedVotesRaw |-> v] : a \in RemoteIds, v \in Votes }

RowLists(n) ==
    { rows \in UNION { [1..k -> Rows] : k \in 0..n } :
        /\ \A i, j \in 1..Len(rows) : i # j => rows[i].id # rows[j].id
        /\ \A i \in 1..(Len(rows) - 1) :
              rows[i].delegatedVotesRaw >= rows[i + 1].delegatedVotesRaw }

ErrorMessages == {"upstream timeout", "unknown field"}

ErrorLists == UNION { [1..k -> ErrorMessages] : k \in 1..MaxErrors }

ExecutionResults ==
    { [data |-> Some(rows), errors |-> None] : rows \in RowLists(MaxRemote) }
    \cup { [data |-> d, errors |-> Some(errs)] :
             d \in {None} \cup { Some(rows) : rows \in RowLists(1) },
             errs \in ErrorLists }

(***************************************************************************)
(* Query.wrappedDelegates after the await: the error check, the reshaping  *)
(* of the rows and the union with the statement-only addresses.            *)
(***************************************************************************)
RECURSIVE JoinMessages(_)
JoinMessages(errors) ==
    IF Len(errors) = 0 THEN ""
    ELSE IF Len(errors) = 1 THEN errors[1]
    ELSE errors[1] \o ", \n" \o JoinMessages(Tail(errors))

AggregateError(errors) ==
    [kind |-> "AggregateError", errors |-> errors, message |-> JoinMessages(errors),
     list |-> <<>>]

ListResult(list) == [kind |-> "list", errors |-> <<>>, message |-> "", list |-> list]

ToRemoteDelegates(rows) ==
    [i \in 1..Len(rows) |-> [address |-> rows[i].id, underlyingDelegate |-> Some(rows[i])]]

MergeDelegates_NoFilter(remoteDelegates, fromDelegateStatements) ==
    remoteDelegates \o fromDelegateStatements

MergeDelegates_RemoteOnly(remoteDelegates, fromDelegateStatements) ==
    remoteDelegates

MergeDelegates(remoteDelegates, fromDelegateStatements) ==
    LET remoteDelegatesSet == { remoteDelegates[i].address : i \in 1..Len(remoteDelegates) }
        NotRemote(it) == it.address \notin remoteDelegatesSet
    IN remoteDelegates \o SelectSeq(fromDelegateStatements, NotRemote)

HandleExecutionResult_PartialOnError(executionResult, fromDelegateStatements) ==
    IF executionResult.data # None
    THEN ListResult(MergeDelegates(ToRemoteDelegates(executionResult.data[1]),
                                   fromDelegateStatements))
    ELSE AggregateError(executionResult.errors[1])

HandleExecutionResult(executionResult, fromDelegateStatements) ==
    IF executionResult.errors # None
    THEN AggregateError(executionResult.errors[1])
    ELSE ListResult(MergeDelegates(ToRemoteDelegates(executionResult.data[1]),
                                   fromDelegateStatements))

(***************************************************************************)
(* WrappedDelegate.delegate: the row of the fused query when there is one, *)
(* else a delegated fetch of the remote field delegate(id: address).       *)
(***************************************************************************)
FusedCall == [kind |-> "graphql", fieldName |-> "delegates", id |-> <<>>]

DelegatedCall(fieldName, id) == [kind |-> "delegateToSchema", fieldName |-> fieldName, id |-> id]

WrappedDelegate_delegate_AlwaysFetch(parent) ==
    [value |-> parent.underlyingDelegate,
     remoteCalls |-> <<DelegatedCall("delegate", parent.address)>>]

WrappedDelegate_delegate_NoFallback(parent) ==
    [value |-> parent.underlyingDelegate, remoteCalls |-> <<>>]

WrappedDelegate_delegate(parent) ==
    IF parent.underlyingDelegate # None
    THEN [value |-> parent.underlyingDelegate, remoteCalls |-> <<>>]
    ELSE [value |-> None, remoteCalls |-> <<DelegatedCall("delegate", parent.address)>>]

(***************************************************************************)
(* One wrappedDelegates request, step by step: the code up to the await,   *)
(* the code after it, the executor resolving delegate on every entry of    *)
(* the returned list, and the reply.                                       *)
(***************************************************************************)
IdleCall ==
    [pc |-> "idle", fieldNodes |-> <<>>, fusedDelegateQuery |-> None,
     fromDelegateStatements |-> <<>>, executionResult |-> None, result |-> None,
     wantsDelegate |-> FALSE, next |-> 0, remoteCalls |-> <<>>, resolved |-> <<>>]

SelectsDelegate(fieldNodes) ==
    \E i \in 1..Len(fieldNodes) :
        \E j \in 1..Len(fieldNodes[i].selections) :
            /\ fieldNodes[i].selections[j].kind = "Field"
            /\ fieldNodes[i].selections[j].name = "delegate"

wrappedDelegates_call(fieldNodes) ==
    LET delegateFieldSelectionSet ==
            getSelectionSetFromDelegateField(fieldNodes, "wrappedDelegates")
        keys == MapKeys(delegateStatements)
    IN
    /\ call.pc = "idle"
    /\ call' = [call EXCEPT
                  !.pc = "awaiting",
                  !.fieldNodes = fieldNodes,
                  !.fusedDelegateQuery =
                      Some(buildFusedDelegateQuery(delegateFieldSelectionSet)),
                  !.fromDelegateStatements =
                      [i \in 1..Len(keys) |->
                          [address |-> keys[i], underlyingDelegate |-> None]],
                  !.wantsDelegate = SelectsDelegate(fieldNodes),
                  !.remoteCalls = <<FusedCall>>]
    /\ UNCHANGED <<delegateStatements, verified, resp, cache, gw, workerVars>>

wrappedDelegates_resume(executionResult) ==
    LET result == HandleExecutionResult(executionResult, call.fromDelegateStatements) IN
    /\ call.pc = "awaiting"
    /\ call' = [call EXCEPT
                  !.pc = IF result.kind = "list" /\ call.wantsDelegate /\ result.list # <<>>
                         THEN "resolving" ELSE "done",
                  !.fieldNodes = <<>>,
                  !.fusedDelegateQuery = None,
                  !.executionResult = Some(executionResult),
                  !.result = Some(result),
                  !.next = 1]
    /\ UNCHANGED <<delegateStatements, verified, resp, cache, gw, workerVars>>

resolveDelegate ==
    LET resolved == WrappedDelegate_delegate(call.result[1].list[call.next]) IN
    /\ call.pc = "resolving"
    /\ call' = [call EXCEPT
                  !.pc = IF call.next = Len(call.result[1].list) THEN "done" ELSE "resolving",
                  !.next = call.next + 1,
                  !.remoteCalls = call.remoteCalls \o resolved.remoteCalls,
                  !.resolved = Append(call.resolved, resolved)]
    /\ UNCHANGED <<delegateStatements, verified, resp, cache, gw, workerVars>>

reply ==
    /\ call.pc = "done"
    /\ call' = IdleCall
    /\ UNCHANGED <<delegateStatements, verified, resp, cache, gw, workerVars>>

(***************************************************************************)
(* The synchronous resolvers under any sequence of requests.               *)
(***************************************************************************)
Init ==
    /\ delegateStatements = <<[key |-> SeedAddress, value |-> SeedRecord]>>
    /\ verified = {}
    /\ resp = NoResponse
    /\ call = IdleCall
    /\ cache = <<>>
    /\ gw = <<>>
    /\ makeGatewaySchemaPromise = 0
    /\ schemaPromises = <<>>
    /\ requests = [r \in 1..MaxRequests |-> [pc |-> "idle", awaits |-> 0]]

Next ==
    \/ \E body \in Bodies : \E sig \in Signatures(body) :
          createNewDelegateStatement(body, sig)
    \/ \E address \in AddressInputs : queryAddress(address)

Spec == Init /\ [][Next]_vars

(***************************************************************************)
(* A wrappedDelegates request interleaved with statements being committed. *)
(***************************************************************************)
ListSubmissions ==
    { [body |-> b, sig |-> [signer |-> b.address, over |-> b]] :
        b \in { x \in Bodies : /\ x.wellFormed
                               /\ x.address \in Signers
                               /\ x.delegateStatement = "Hello" } }

NextList ==
    \/ \E s \in ListSubmissions : createNewDelegateStatement(s.body, s.sig)
    \/ \E fieldNodes \in RequestFieldNodes : wrappedDelegates_call(fieldNodes)
    \/ \E executionResult \in ExecutionResults : wrappedDelegates_resume(executionResult)
    \/ resolveDelegate
    \/ reply

ListSpec == Init /\ [][NextList]_vars

(***************************************************************************)
(* The worker's fetch for /graphql: the server runs the request under the  *)
(* response-cache plugin, which shares one in-memory cache across requests.*)
(* A query is answered from the cache when its key (query text and         *)
(* variables) is there, else executed and stored; an entry leaves the      *)
(* cache when its lifetime ends.  A mutation is executed, never cached.    *)
(***************************************************************************)
AddressQueryText == "query ($address: ID!) { address(address: $address) { wrappedDelegate { id statement { statement } } } }"

CacheKey(query, variables) == [query |-> query, variables |-> variables]

CacheGet(c, key) == MapGet(c, key)

CacheSet(c, key, response) == MapSet(c, key, response)

CacheWithout(c, key) == SelectSeq(c, LAMBDA e : e.key # key)

fetch_query(address) ==
    LET key      == CacheKey(AddressQueryText, [address |-> address])
        cached   == CacheGet(cache, key)
        executed == ExecuteAddressQuery(address)
    IN
    /\ cache' = IF cached = None THEN CacheSet(cache, key, executed) ELSE cache
    /\ gw' = Some([key |-> key,
                   hit |-> cached # None,
                   response |-> IF cached = None THEN executed ELSE cached[1],
                   uncached |-> executed])
    /\ UNCHANGED <<delegateStatements, verified, resp, call, workerVars>>

fetch_mutation(body, sig) ==
    /\ createNewDelegateStatement(body, sig)

cacheExpire(key) ==
    /\ MapHas(cache, key)
    /\ cache' = CacheWithout(cache, key)
    /\ UNCHANGED <<delegateStatements, verified, resp, call, gw, workerVars>>

NextGateway ==
    \/ \E s \in ListSubmissions : fetch_mutation(s.body, s.sig)
    \/ \E address \in AddressInputs : fetch_query(address)
    \/ \E address \in AddressInputs :
          cacheExpire(CacheKey(AddressQueryText, [address |-> address]))

GatewaySpec == Init /\ [][NextGateway]_vars

(***************************************************************************)
(* The worker's fetch up to the schema: a /graphql request creates the     *)
(* gateway schema promise if the module variable holds none, then awaits   *)
(* the promise the variable holds; the test and the assignment have no     *)
(* await between them.  makeGatewaySchema is async, so its promise is      *)
(* settled later, fulfilled or rejected.  Any other path serves an asset.  *)
(* What the server does with a request once the schema is there is the     *)
(* part above (fetch_query, fetch_mutation).                               *)
(***************************************************************************)
Pathnames == {"/graphql", "/index.html"}

IdleRequest == [pc |-> "idle", awaits |-> 0]

EnsureSchemaPromise_RetryRejected(promise, promises) ==
    IF promise = 0 \/ promises[promise] = "rejected"
    THEN [promise |-> Len(promises) + 1, promises |-> Append(promises, "pending")]
    ELSE [promise |-> promise, promises |-> promises]

EnsureSchemaPromise(promise, promises) ==
    IF promise = 0
    THEN [promise |-> Len(promises) + 1, promises |-> Append(promises, "pending")]
    ELSE [promise |-> promise, promises |-> promises]

fetch_begin(r, pathname) ==
    LET ensured == EnsureSchemaPromise(makeGatewaySchemaPromise, schemaPromises) IN
    /\ requests[r].pc = "idle"
    /\ IF pathname = "/graphql"
       THEN /\ makeGatewaySchemaPromise' = ensured.promise
            /\ schemaPromises' = ensured.promises
            /\ requests' = [requests EXCEPT
                              ![r] = [pc |-> "awaitingSchema", awaits |-> ensured.promise]]
       ELSE /\ requests' = [requests EXCEPT ![r] = [pc |-> "asset", awaits |-> 0]]
            /\ UNCHANGED <<makeGatewaySchemaPromise, schemaPromises>>
    /\ UNCHANGED <<delegateStatements, verified, resp, call, cache, gw>>

makeGatewaySchema_settle(promise, outcome) ==
    /\ promise \in 1..Len(schemaPromises)
    /\ schemaPromises[promise] = "pending"
    /\ schemaPromises' = [schemaPromises EXCEPT ![promise] = outcome]
    /\ UNCHANGED <<delegateStatements, verified, resp, call, cache, gw,
                   makeGatewaySchemaPromise, requests>>

fetch_resume(r) ==
    /\ requests[r].pc = "awaitingSchema"
    /\ schemaPromises[requests[r].awaits] # "pending"
    /\ requests' = [requests EXCEPT
                      ![r].pc = IF schemaPromises[requests[r].awaits] = "fulfilled"
                                THEN "served" ELSE "failed"]
    /\ UNCHANGED <<delegateStatements, verified, resp, call, cache, gw,
                   makeGatewaySchemaPromise, schemaPromises>>

fetch_end(r) ==
    /\ requests[r].pc \in {"served", "failed", "asset"}
    /\ requests' = [requests EXCEPT ![r] = IdleRequest]
    /\ UNCHANGED <<delegateStatements, verified, resp, call, cache, gw,
                   makeGatewaySchemaPromise, schemaPromises>>

NextWorker ==
    \/ \E r \in 1..MaxRequests : \E pathname \in Pathnames : fetch_begin(r, pathname)
    \/ \E promise \in 1..Len(schemaPromises) : \E outcome \in {"fulfilled", "rejected"} :
          makeGatewaySchema_settle(promise, outcome)
    \/ \E r \in 1..MaxRequests : fetch_resume(r)
    \/ \E r \in 1..MaxRequests : fetch_end(r)

WorkerSpec == Init /\ [][NextWorker]_vars

(***************************************************************************)
(* Helpers of the properties below.                                        *)
(***************************************************************************)
HasListResult == call.pc \in {"resolving", "done"} /\ call.result[1].kind = "list"

ReturnedList == call.result[1].list

ReturnedRows == call.executionResult[1].data[1]

ReturnedIds == { ReturnedRows[i].id : i \in 1..Len(ReturnedRows) }

SnapshotKeys ==
    { call.fromDelegateStatements[i].address : i \in 1..Len(call.fromDelegateStatements) }

EntriesFor(address) == { i \in 1..Len(ReturnedList) : ReturnedList[i].address = address }

StatementOnlyEntries ==
    { i \in 1..Len(ReturnedList) : ReturnedList[i].underlyingDelegate = None }

\* C1: Listing de-duplication.  In the list wrappedDelegates returns, every
\* address that the fused remote query returned and that is a key of the
\* Statement Store (when the resolver read it, or now) has exactly one entry,
\* and that entry's underlyingDelegate is the row the remote query returned.
C1_ListingDeduplication ==
    HasListResult =>
        \A i \in 1..Len(ReturnedRows) :
            LET A == ReturnedRows[i].id IN
            (A \in SnapshotKeys \/ MapHas(delegateStatements, A)) =>
                /\ Cardinality(EntriesFor(A)) = 1
                /\ \A j \in EntriesFor(A) :
                      ReturnedList[j].underlyingDelegate = Some(ReturnedRows[i])

C1_Witness ==
    /\ HasListResult
    /\ Len(ReturnedRows) = 2
    /\ \E A \in ReturnedIds :
          /\ A \in SnapshotKeys
          /\ A # SeedAddress
          /\ Cardinality(EntriesFor(A)) = 1

\* C2: Listing completeness.  Every address that was a key of the Statement
\* Store when the resolver read it and that is not among the ids the fused
\* remote query returned has exactly one entry in the returned list, and
\* that entry has no underlyingDelegate.
C2_ListingCompleteness ==
    HasListResult =>
        \A A \in SnapshotKeys \ ReturnedIds :
            /\ Cardinality(EntriesFor(A)) = 1
            /\ \A j \in EntriesFor(A) : ReturnedList[j].underlyingDelegate = None

C2_Witness ==
    /\ HasListResult
    /\ Len(ReturnedRows) >= 1
    /\ Cardinality(SnapshotKeys \ ReturnedIds) = 2
    /\ Cardinality(StatementOnlyEntries) = 2

\* the selections the caller put on the delegate field of the request
DelegateFieldsOf(node) ==
    { k \in 1..Len(node.selections) :
        /\ node.selections[k].kind = "Field"
        /\ node.selections[k].name = "delegate" }

RequestedDelegateSelections(fieldNodes) ==
    UNION { UNION { Range(fieldNodes[i].selections[j].selections) :
                      j \in DelegateFieldsOf(fieldNodes[i]) } :
              i \in 1..Len(fieldNodes) }

\* C3: Selection preservation.  For every request, the DelegateFields
\* fragment of the fused remote query selects the identity field id and
\* every selection the caller put on the delegate field (plain fields,
\* aliased fields, fragment spreads, inline fragments), unchanged.
C3_FusedQueryKeepsSelections ==
    call.pc = "awaiting" =>
        LET fragment == Range(call.fusedDelegateQuery[1].fragment.selections) IN
        /\ IdField \in fragment
        /\ RequestedDelegateSelections(call.fieldNodes) \subseteq fragment

\* C4: Error policy.  When the fused remote execution returns errors, the
\* field fails with an aggregate error that carries exactly those errors,
\* and no list is returned, whether or not data came with the errors; the
\* executor has no entry to resolve.
C4_ErrorsFailTheField ==
    (call.result # None /\ call.executionResult[1].errors # None) =>
        /\ call.result[1].kind = "AggregateError"
        /\ call.result[1].errors = call.executionResult[1].errors[1]
        /\ call.result[1].list = <<>>
        /\ call.pc = "done"

C4_Witness ==
    /\ call.result # None
    /\ call.executionResult[1].errors # None
    /\ Len(call.executionResult[1].errors[1]) = 2
    /\ call.executionResult[1].data # None
    /\ call.executionResult[1].data[1] # <<>>
    /\ call.result[1].kind = "AggregateError"

DelegatedCalls == SelectSeq(call.remoteCalls, LAMBDA c : c.kind = "delegateToSchema")

\* C9 as claimed: a finished wrappedDelegates request that selected
\* delegate has made exactly one remote round trip.
C9_ExactlyOneRoundTrip ==
    (call.pc = "done" /\ call.wantsDelegate) => Len(call.remoteCalls) = 1

\* C9, amended: every run of the wrappedDelegates resolver makes exactly one
\* fused remote execution, whatever the list size and also when the extra
\* selection is empty; resolving delegate then adds one delegated fetch for
\* each statement-only entry of the returned list and none for an on-chain
\* entry, so the finished request has made 1 + k round trips.
C9_OneFusedCallPlusStatementOnly ==
    /\ call.pc # "idle" =>
          /\ call.remoteCalls # <<>>
          /\ call.remoteCalls[1] = FusedCall
          /\ \A i \in 2..Len(call.remoteCalls) : call.remoteCalls[i] # FusedCall
    /\ call.pc = "done" =>
          Len(call.remoteCalls) =
              1 + (IF call.wantsDelegate /\ call.result[1].kind = "list"
                   THEN Cardinality(StatementOnlyEntries) ELSE 0)

C9_Witness ==
    /\ call.pc = "done"
    /\ call.wantsDelegate
    /\ call.result[1].kind = "list"
    /\ Len(ReturnedList) = 3
    /\ Cardinality(StatementOnlyEntries) = 1
    /\ Len(call.remoteCalls) = 2

(***************************************************************************)
(* Letter case, stated without toLowerCase.                                *)
(***************************************************************************)
IsLowerCase(s) == \A i \in 1..Len(s) : s[i] \notin Range(UpperChars)

SameIgnoringCase(s, t) ==
    /\ Len(s) = Len(t)
    /\ \A i \in 1..Len(s) :
          \/ s[i] = t[i]
          \/ \E k \in 1..Len(UpperChars) : {s[i], t[i]} = {UpperChars[k], LowerChars[k]}

\* the submission is well formed and was signed, as it stands, by the key
\* of the address it claims
IsValidSubmission(body, sig) ==
    /\ body.wellFormed
    /\ sig.over = body
    /\ SameIgnoringCase(sig.signer, body.address)

StoreEntriesFor(m, address) == { i \in 1..Len(m) : m[i].key = address }

IsCreate(r) == r.op = "createNewDelegateStatement"

\* C5 as claimed: every record of the Statement Store is one that the
\* Signature Validator has verified, from the store's state at module load on.
C5_EveryRecordVerified ==
    \A i \in 1..Len(delegateStatements) : delegateStatements[i].value \in verified

\* C5, amended: every record of the Statement Store is either the record the
\* store is seeded with at module load, which no validation has checked, or
\* a record the Signature Validator returned for a submission whose
\* signature matched its address; each record is filed under its own address.
C5_RecordsAreSeedOrVerified ==
    \A i \in 1..Len(delegateStatements) :
        /\ delegateStatements[i].key = delegateStatements[i].value.address
        /\ \/ delegateStatements[i].value = SeedRecord
           \/ delegateStatements[i].value \in verified

C5_Witness ==
    /\ Len(delegateStatements) = 2
    /\ delegateStatements[1].value = SeedRecord
    /\ delegateStatements[2].value \in verified
    /\ IsCreate(resp) /\ ~resp.ok

\* C6: a createNewDelegateStatement whose body is malformed or whose
\* signature does not match the claimed address is rejected with a
\* validation error and leaves the Statement Store exactly as it was; a
\* valid one commits the record and returns the address and nothing else.
C6_RejectedLeavesStoreValidCommits ==
    [][ IsCreate(resp') =>
          IF IsValidSubmission(resp'.body, resp'.sig)
          THEN /\ resp'.ok
               /\ resp'.result # None
               /\ DOMAIN resp'.result[1] = {"address"}
               /\ SameIgnoringCase(resp'.result[1].address, resp'.body.address)
               /\ \E i \in 1..Len(delegateStatements') :
                     /\ delegateStatements'[i].key = resp'.result[1].address
                     /\ delegateStatements'[i].value.values.delegateStatement =
                            resp'.body.delegateStatement
          ELSE /\ ~resp'.ok
               /\ resp'.result = None
               /\ resp'.error # ""
               /\ delegateStatements' = delegateStatements ]_vars

C6_Witness ==
    /\ IsCreate(resp)
    /\ ~resp.ok
    /\ resp.body.wellFormed
    /\ resp.sig.over = resp.body
    /\ Len(delegateStatements) = 2

\* C7: the store never holds two records for one address, and a step changes
\* it only as one upsert: after a valid submission the address has exactly
\* one record, the one just submitted, every other record is as before, and
\* a rejected submission or a query changes nothing (last write wins, also
\* for the same payload submitted twice).
C7_AtomicUpsertLastWriteWins ==
    /\ [](\A i, j \in 1..Len(delegateStatements) :
             i # j => delegateStatements[i].key # delegateStatements[j].key)
    /\ [][ IF IsCreate(resp') /\ resp'.ok
           THEN LET A == resp'.result[1].address IN
                /\ Cardinality(StoreEntriesFor(delegateStatements', A)) = 1
                /\ \A i \in StoreEntriesFor(delegateStatements', A) :
                      delegateStatements'[i].value.values.delegateStatement =
                          resp'.body.delegateStatement
                /\ \A i \in 1..Len(delegateStatements) :
                      delegateStatements[i].key # A =>
                          delegateStatements'[i] = delegateStatements[i]
                /\ Len(delegateStatements') =
                      Len(delegateStatements)
                          + (IF MapHas(delegateStatements, A) THEN 0 ELSE 1)
           ELSE delegateStatements' = delegateStatements ]_vars

C7_Witness ==
    /\ IsCreate(resp)
    /\ resp.ok
    /\ Len(delegateStatements) = 2
    /\ \E r \in verified :
          /\ r.address = resp.result[1].address
          /\ r.values.delegateStatement # resp.body.delegateStatement
    /\ \A i \in 1..Len(delegateStatements) :
          delegateStatements[i].key = resp.result[1].address =>
              delegateStatements[i].value.values.delegateStatement =
                  resp.body.delegateStatement

\* C10: read-your-write across letter case.  Every key of the Statement
\* Store is lowercase; a successful createNewDelegateStatement files the
\* record under the lowercase form of the submitted address; and
\* address(address: X).wrappedDelegate returns, for any spelling X, the
\* lowercase form of X and the statement text of the record stored for it.
C10_ReadYourWriteAcrossCase ==
    /\ \A i \in 1..Len(delegateStatements) : IsLowerCase(delegateStatements[i].key)
    /\ (IsCreate(resp) /\ resp.ok) =>
          /\ IsLowerCase(resp.result[1].address)
          /\ SameIgnoringCase(resp.result[1].address, resp.body.address)
          /\ MapHas(delegateStatements, resp.result[1].address)
    /\ resp.op = "address" =>
          /\ IsLowerCase(resp.result[1].address)
          /\ SameIgnoringCase(resp.result[1].address, resp.address)
          /\ \A i \in 1..Len(delegateStatements) :
                SameIgnoringCase(delegateStatements[i].key, resp.address) =>
                    resp.result[1].statement =
                        Some(delegateStatements[i].value.values.delegateStatement)

C10_Witness ==
    /\ resp.op = "address"
    /\ ~IsLowerCase(resp.address)
    /\ resp.address # toLowerCase(SeedAddress)
    /\ resp.result[1].statement = Some("Hello")
    /\ IsLowerCase(resp.result[1].address)

\* C8: Cache transparency.  Every query the gateway answers with the shared
\* response cache enabled gets the response the gateway would give with the
\* cache disabled, whatever requests were handled before it.
C8_CacheTransparency ==
    gw # None => gw[1].response = gw[1].uncached

\* C11: Resolving delegate on an entry of the returned list does not fail for
\* want of underlyingDelegate.  For an entry that has it, the resolver
\* returns that very row and makes no remote call; for a statement-only
\* entry it returns no local value and issues exactly one delegated fetch,
\* of the remote field delegate with id equal to the entry's address.
C11_DelegateFallsBackToFetch ==
    call.pc \in {"resolving", "done"} =>
        \A i \in 1..Len(call.resolved) :
            LET entry == call.result[1].list[i] IN
            IF entry.underlyingDelegate # None
            THEN /\ call.resolved[i].value = entry.underlyingDelegate
                 /\ call.resolved[i].remoteCalls = <<>>
            ELSE /\ call.resolved[i].value = None
                 /\ call.resolved[i].remoteCalls =
                        << [kind |-> "delegateToSchema", fieldName |-> "delegate",
                            id |-> entry.address] >>

C11_Witness ==
    /\ call.pc = "done"
    /\ Len(call.resolved) = 3
    /\ \E i \in 1..3 :
          /\ call.result[1].list[i].underlyingDelegate = None
          /\ call.resolved[i].remoteCalls # <<>>
    /\ \E i \in 1..3 :
          /\ call.result[1].list[i].underlyingDelegate # None
          /\ call.resolved[i].remoteCalls = <<>>

PastTheAwait(r) == requests[r].pc \in {"awaitingSchema", "served", "failed"}

\* C12: Schema memoization.  Under any interleaving of /graphql requests,
\* makeGatewaySchema is invoked at most once; every request awaits the one
\* promise the module variable holds; a request is served only if that
\* promise was fulfilled and fails if it was rejected; and once the variable
\* holds a promise it keeps that promise, rejected or not, and no further
\* construction is started.
C12_SchemaBuiltOnceFailureRetained ==
    /\ [](/\ Len(schemaPromises) <= 1
          /\ makeGatewaySchemaPromise = Len(schemaPromises)
          /\ \A r \in 1..MaxRequests :
                PastTheAwait(r) =>
                    /\ requests[r].awaits = makeGatewaySchemaPromise
                    /\ requests[r].awaits = 1
                    /\ requests[r].pc = "served" => schemaPromises[1] = "fulfilled"
                    /\ requests[r].pc = "failed" => schemaPromises[1] = "rejected")
    /\ [][ /\ makeGatewaySchemaPromise # 0 =>
                /\ makeGatewaySchemaPromise' = makeGatewaySchemaPromise
                /\ Len(schemaPromises') = Len(schemaPromises)
           /\ \A i \in 1..Len(schemaPromises) :
                schemaPromises[i] # "pending" =>
                    /\ i <= Len(schemaPromises')
                    /\ schemaPromises'[i] = schemaPromises[i] ]_vars

C12_Witness ==
    /\ schemaPromises = <<"rejected">>
    /\ makeGatewaySchemaPromise = 1
    /\ requests[1].pc = "failed"
    /\ requests[2].pc = "failed"
    /\ requests[3].pc = "awaitingSchema"

====
